---- MODULE Spec2Model ----
(***************************************************************************)
(* Dynamic multi-way search (Dynamic_Multi-Way_Search_Implementation.py).  *)
(*                                                                         *)
(* Two entry points search a list for a target:                            *)
(*   dynamic_multi_way_search           (tail-recursive search_recursive)  *)
(*   dynamic_multi_way_search_iterative (while loop)                       *)
(* One action models one call of search_recursive, one action models one   *)
(* pass of the while loop (its exit included).  Both forms run on the same *)
(* input side by side, each with its own state.                            *)
(*                                                                         *)
(* Indices are Python's (0-based); the list arr is a TLA+ sequence, so the *)
(* element at Python index p is arr[p + 1].                                *)
(*                                                                         *)
(* Arithmetic.  int(2 * math.log2(size)) is modelled by the exact value    *)
(* floor(log2(size^2)) and int(i * (range_size / divisions)) by the exact  *)
(* value floor(i * range_size / divisions).  The double-precision results  *)
(* agree with the exact ones for every range size below 588, which covers  *)
(* every range the search specifications reach; from size 588 on the       *)
(* product i * segment_size can round to just below an integer and the     *)
(* code's point is then one less than the exact floor.                     *)
(***************************************************************************)
EXTENDS Integers, Sequences, FiniteSets, TLC

VARIABLES
    arr,         \* the list searched (read only)
    target,      \* the value searched for
    rpc,         \* recursive form: "call" (a call is pending), "done", "raised"
    rleft,       \* recursive form: argument left of the pending call
    rright,      \* recursive form: argument right of the pending call
    rresult,     \* recursive form: the value returned
    rsize,       \* recursive form: local range_size (0: not bound)
    rdivisions,  \* recursive form: local divisions (0: not bound)
    rtrace,      \* recursive form: history of the calls made
    ipc,         \* iterative form: "loop", "done", "raised"
    ileft,       \* iterative form: local left
    iright,      \* iterative form: local right
    iresult,     \* iterative form: the value returned
    isize,       \* iterative form: local range_size (0: not bound)
    idivisions,  \* iterative form: local divisions (0: not bound)
    itrace,      \* iterative form: history of the loop passes
    iguard,      \* iterative form: the safety check `point >= len(arr)` has fired
    ifallback    \* iterative form: the binary-search fallback branch was taken

rvars == <<rpc, rleft, rright, rresult, rsize, rdivisions, rtrace>>
ivars == <<ipc, ileft, iright, iresult, isize, idivisions, itrace, iguard, ifallback>>
vars == <<arr, target, rvars, ivars>>

----------------------------------------------------------------------------
(* Bounds of the model *)

\* longest ascending-sorted list
MaxLen == 12
\* sorted lists hold values 0 .. MaxValue
MaxValue == 2
\* longest arbitrary (unsorted) list
MaxAnyLen == 11
\* largest range size given to the division planner on its own
MaxSize == 100000

(* Program constants *)

SmallRange == 10
BinaryDivisions == 2
MaxDivisions == 32
NotFound == -1

----------------------------------------------------------------------------
(* Python primitives *)

Min(a, b) == IF a <= b THEN a ELSE b

\* the least member of a set of positive integers, 0 when there is none
FirstIndex(S) == IF S = {} THEN 0 ELSE CHOOSE k \in S : \A j \in S : k <= j

\* a[p] does not raise IndexError
Indexable(a, p) == -Len(a) <= p /\ p < Len(a)

\* a[p], negative p counting from the end
PyGet(a, p) == IF p >= 0 THEN a[p + 1] ELSE a[Len(a) + p + 1]

RECURSIVE Pow2(_)
Pow2(k) == IF k <= 0 THEN 1 ELSE 2 * Pow2(k - 1)

RECURSIVE FloorLog2(_)
FloorLog2(n) == IF n < 2 THEN 0 ELSE 1 + FloorLog2(n \div 2)

\* floor(s^2 / 1024), by limbs of 10 bits so that no product leaves 32 bits
SquareDiv1024(s) ==
    LET h == s \div 1024
        l == s % 1024
    IN  h * h * 1024 + 2 * h * l + (l * l) \div 1024

\* s^2 >= 2^k
SquareAtLeastPow2(s, k) ==
    IF k < 10 THEN s * s >= Pow2(k) ELSE SquareDiv1024(s) >= Pow2(k - 10)

\* int(2 * math.log2(size)) for size >= 1: floor(log2(size^2))
IntTwoLog2(size) ==
    LET e == FloorLog2(size)
    IN  IF SquareAtLeastPow2(size, 2 * e + 1) THEN 2 * e + 1 ELSE 2 * e

----------------------------------------------------------------------------
(* Division planner *)

\* calculate_divisions without the cap at 32
calculate_divisions_uncapped(size) ==
    IF size <= SmallRange THEN BinaryDivisions ELSE IntTwoLog2(size)

\* calculate_divisions(size), nested in dynamic_multi_way_search
calculate_divisions(size) ==
    IF size <= SmallRange
    THEN BinaryDivisions
    ELSE Min(IntTwoLog2(size), MaxDivisions)

\* the inline computation of divisions in dynamic_multi_way_search_iterative
inline_divisions(range_size) ==
    IF range_size <= SmallRange
    THEN BinaryDivisions
    ELSE LET divisions == IntTwoLog2(range_size)
         IN  Min(divisions, MaxDivisions)

----------------------------------------------------------------------------
(* Recursive form: one call of search_recursive(left, right) *)

\* the point rounded up instead of truncated
rec_point_ceil(left, i, range_size, divisions) ==
    left + (i * range_size + divisions - 1) \div divisions

\* point = left + int(i * segment_size), segment_size = range_size / divisions
rec_point(left, i, range_size, divisions) ==
    left + (i * range_size) \div divisions

\* the segment scan with the comparison inverted
rec_segment_inverted(a, t, division_points) ==
    FirstIndex({i \in 1 .. Len(division_points) :
                    t > PyGet(a, division_points[i])})

\* the first i of the segment scan with target < arr[division_points[i]]
\* (1-based; 0 when the scan ends without one)
rec_segment(a, t, division_points) ==
    FirstIndex({i \in 1 .. Len(division_points) :
                    t < PyGet(a, division_points[i])})

\* the last segment starting at the last point instead of after it
rec_next_range_keep_point(left, right, division_points, seg) ==
    IF seg = 1 THEN <<left, division_points[1] - 1>>
    ELSE IF seg > 1
    THEN <<division_points[seg - 1] + 1, division_points[seg] - 1>>
    ELSE <<division_points[Len(division_points)], right>>

\* the arguments of the recursive call for segment seg
rec_next_range(left, right, division_points, seg) ==
    IF seg = 1 THEN <<left, division_points[1] - 1>>
    ELSE IF seg > 1
    THEN <<division_points[seg - 1] + 1, division_points[seg] - 1>>
    ELSE <<division_points[Len(division_points)] + 1, right>>

Outcome(kind, value, next, size, divisions, points) ==
    [kind |-> kind, value |-> value, next |-> next, size |-> size,
     divisions |-> divisions, points |-> points]

\* What one call does: kind is "notfound" (return -1), "found" (return point),
\* "narrow" (the tail call, with its arguments in next) or "raise" (IndexError).
\* points are the points appended to division_points, in order.
search_recursive(a, t, left, right) ==
    IF left > right
    THEN Outcome("notfound", NotFound, <<left, right>>, 0, 0, <<>>)
    ELSE
    LET range_size == right - left + 1
        divisions == calculate_divisions(range_size)
        all == [i \in 1 .. divisions - 1 |->
                    rec_point(left, i, range_size, divisions)]
        \* the probing loop ends early at the first point that cannot be
        \* read or that holds the target
        stop == FirstIndex({i \in 1 .. divisions - 1 :
                    \/ ~Indexable(a, all[i])
                    \/ PyGet(a, all[i]) = t})
        division_points == IF stop = 0 THEN all ELSE SubSeq(all, 1, stop)
    IN  IF stop # 0 /\ ~Indexable(a, all[stop])
        THEN Outcome("raise", NotFound, <<left, right>>,
                     range_size, divisions, division_points)
        ELSE IF stop # 0
        THEN Outcome("found", all[stop], <<left, right>>,
                     range_size, divisions, division_points)
        ELSE IF division_points = <<>>
        THEN \* division_points[-1] of an empty list
             Outcome("raise", NotFound, <<left, right>>,
                     range_size, divisions, division_points)
        ELSE Outcome("narrow", NotFound,
                     rec_next_range(left, right, division_points,
                                    rec_segment(a, t, division_points)),
                     range_size, divisions, division_points)

----------------------------------------------------------------------------
(* Iterative form: one pass of the while loop *)

\* the point rounded up instead of truncated
iter_point_ceil(left, i, range_size, divisions) ==
    left + (i * range_size + divisions - 1) \div divisions

\* point = left + int(i * segment_size), segment_size = range_size / divisions
iter_point(left, i, range_size, divisions) ==
    left + (i * range_size) \div divisions

\* the first i of the segment scan with target < arr[division_points[i]]
\* (1-based; 0 when found_segment stays False)
iter_segment(a, t, division_points) ==
    FirstIndex({i \in 1 .. Len(division_points) :
                    t < PyGet(a, division_points[i])})

\* a middle segment starting after point i instead of after point i - 1
iter_next_range_index_slip(left, right, division_points, seg) ==
    IF seg = 1 THEN <<left, division_points[1] - 1>>
    ELSE IF seg > 1
    THEN <<division_points[seg] + 1, division_points[seg] - 1>>
    ELSE <<division_points[Len(division_points)] + 1, right>>

\* left and right after the segment scan
iter_next_range(left, right, division_points, seg) ==
    IF seg = 1 THEN <<left, division_points[1] - 1>>
    ELSE IF seg > 1
    THEN <<division_points[seg - 1] + 1, division_points[seg] - 1>>
    ELSE <<division_points[Len(division_points)] + 1, right>>

\* the binary-search step taken when division_points is empty
iter_fallback(a, t, left, right, range_size, divisions) ==
    LET mid == (left + right) \div 2
    IN  IF ~Indexable(a, mid)
        THEN Outcome("raise", NotFound, <<left, right>>,
                     range_size, divisions, <<mid>>)
        ELSE IF PyGet(a, mid) = t
        THEN Outcome("found", mid, <<left, right>>,
                     range_size, divisions, <<mid>>)
        ELSE IF PyGet(a, mid) > t
        THEN Outcome("narrow", NotFound, <<left, mid - 1>>,
                     range_size, divisions, <<mid>>)
        ELSE Outcome("narrow", NotFound, <<mid + 1, right>>,
                     range_size, divisions, <<mid>>)

\* What one pass does, as for search_recursive, with two more fields: guard
\* (the safety check broke the probing loop) and fallback (the binary-search
\* branch ran).  points are the indices probed, in order.
iterative_pass(a, t, left, right) ==
    IF left > right
    THEN [o |-> Outcome("notfound", NotFound, <<left, right>>, 0, 0, <<>>),
          guard |-> FALSE, fallback |-> FALSE]
    ELSE
    LET range_size == right - left + 1
        divisions == inline_divisions(range_size)
        all == [i \in 1 .. divisions - 1 |->
                    iter_point(left, i, range_size, divisions)]
        \* the probing loop ends early at the first point that the safety
        \* check rejects, that cannot be read, or that holds the target
        stop == FirstIndex({i \in 1 .. divisions - 1 :
                    \/ all[i] >= Len(a)
                    \/ ~Indexable(a, all[i])
                    \/ PyGet(a, all[i]) = t})
        guard == stop # 0 /\ all[stop] >= Len(a)
        division_points ==
            IF stop = 0 THEN all
            ELSE IF guard THEN SubSeq(all, 1, stop - 1)
            ELSE SubSeq(all, 1, stop)
    IN  IF stop # 0 /\ ~guard /\ ~Indexable(a, all[stop])
        THEN [o |-> Outcome("raise", NotFound, <<left, right>>,
                            range_size, divisions, division_points),
              guard |-> FALSE, fallback |-> FALSE]
        ELSE IF stop # 0 /\ ~guard
        THEN [o |-> Outcome("found", all[stop], <<left, right>>,
                            range_size, divisions, division_points),
              guard |-> FALSE, fallback |-> FALSE]
        ELSE IF division_points = <<>>
        THEN [o |-> iter_fallback(a, t, left, right, range_size, divisions),
              guard |-> guard, fallback |-> TRUE]
        ELSE [o |-> Outcome("narrow", NotFound,
                            iter_next_range(left, right, division_points,
                                            iter_segment(a, t, division_points)),
                            range_size, divisions, division_points),
              guard |-> guard, fallback |-> FALSE]

----------------------------------------------------------------------------
(* Inputs *)

\* the ascending-sorted lists of length n over lo .. MaxValue
RECURSIVE NonDecreasing(_, _)
NonDecreasing(n, lo) ==
    IF n = 0 THEN {<<>>}
    ELSE UNION {{<<v>> \o s : s \in NonDecreasing(n - 1, v)} : v \in lo .. MaxValue}

SortedArrays == UNION {NonDecreasing(n, 0) : n \in 0 .. MaxLen}
Targets == -1 .. MaxValue + 1

\* arbitrary lists: relative to the target 1 an element is smaller or larger,
\* relative to 0 or 2 it is equal or on one side
AnyValues == {0, 2}
AnyArrays == UNION {[1 .. n -> AnyValues] : n \in 0 .. MaxAnyLen}
AnyTargets == 0 .. 2

NoResult == NotFound - 1

----------------------------------------------------------------------------
(* States and actions *)

\* both entry points called on (a, t): search_recursive(0, len(arr) - 1) is
\* pending; left, right = 0, len(arr) - 1 are assigned
Start(a, t) ==
    /\ arr = a
    /\ target = t
    /\ rpc = "call"
    /\ rleft = 0
    /\ rright = Len(a) - 1
    /\ rresult = NoResult
    /\ rsize = 0
    /\ rdivisions = 0
    /\ rtrace = <<>>
    /\ ipc = "loop"
    /\ ileft = 0
    /\ iright = Len(a) - 1
    /\ iresult = NoResult
    /\ isize = 0
    /\ idivisions = 0
    /\ itrace = <<>>
    /\ iguard = FALSE
    /\ ifallback = FALSE

Init == \E a \in SortedArrays : \E t \in Targets : Start(a, t)

InitAny == \E a \in AnyArrays : \E t \in AnyTargets : Start(a, t)

\* the planner alone, on a range size s
InitDiv ==
    \E s \in 1 .. MaxSize :
        /\ arr = <<>>
        /\ target = 0
        /\ rpc = "plan"
        /\ rleft = 0
        /\ rright = s - 1
        /\ rresult = NoResult
        /\ rsize = s
        /\ rdivisions = 0
        /\ rtrace = <<>>
        /\ ipc = "plan"
        /\ ileft = 0
        /\ iright = s - 1
        /\ iresult = NoResult
        /\ isize = s
        /\ idivisions = 0
        /\ itrace = <<>>
        /\ iguard = FALSE
        /\ ifallback = FALSE

Entry(left, right, o) ==
    [left |-> left, right |-> right, kind |-> o.kind,
     divisions |-> o.divisions, points |-> o.points]

\* one call of search_recursive(rleft, rright)
SearchRecursive ==
    /\ rpc = "call"
    /\ \E o \in {search_recursive(arr, target, rleft, rright)} :
           /\ rpc' = IF o.kind = "narrow" THEN "call"
                     ELSE IF o.kind = "raise" THEN "raised" ELSE "done"
           /\ rresult' = IF o.kind \in {"found", "notfound"} THEN o.value ELSE rresult
           /\ rleft' = o.next[1]
           /\ rright' = o.next[2]
           /\ rsize' = o.size
           /\ rdivisions' = o.divisions
           /\ rtrace' = Append(rtrace, Entry(rleft, rright, o))
    /\ UNCHANGED <<arr, target, ivars>>

\* one pass of the while loop, or its exit and `return -1`
IterativeLoop ==
    /\ ipc = "loop"
    /\ \E p \in {iterative_pass(arr, target, ileft, iright)} :
         LET o == p.o IN
           /\ ipc' = IF o.kind = "narrow" THEN "loop"
                     ELSE IF o.kind = "raise" THEN "raised" ELSE "done"
           /\ iresult' = IF o.kind \in {"found", "notfound"} THEN o.value ELSE iresult
           /\ ileft' = o.next[1]
           /\ iright' = o.next[2]
           /\ isize' = o.size
           /\ idivisions' = o.divisions
           /\ itrace' = Append(itrace, Entry(ileft, iright, o))
           /\ iguard' = (iguard \/ p.guard)
           /\ ifallback' = (ifallback \/ p.fallback)
    /\ UNCHANGED <<arr, target, rvars>>

\* divisions = calculate_divisions(range_size)
PlanRecursive ==
    /\ rpc = "plan"
    /\ rdivisions' = calculate_divisions(rsize)
    /\ rpc' = "planned"
    /\ UNCHANGED <<arr, target, rleft, rright, rresult, rsize, rtrace, ivars>>

\* the inline computation of divisions
PlanIterative ==
    /\ ipc = "plan"
    /\ idivisions' = inline_divisions(isize)
    /\ ipc' = "planned"
    /\ UNCHANGED <<arr, target, ileft, iright, iresult, isize, itrace,
                   iguard, ifallback, rvars>>

Next == SearchRecursive \/ IterativeLoop

NextDiv == PlanRecursive \/ PlanIterative

\* ascending-sorted lists
Spec == Init /\ [][Next]_vars

\* arbitrary lists
SpecAny == InitAny /\ [][Next]_vars

\* the division planner on range sizes 1 .. MaxSize
SpecDiv == InitDiv /\ [][NextDiv]_vars

----------------------------------------------------------------------------
(* Vocabulary of the properties *)

\* the indices at which arr holds the target
Occurs == {p \in 0 .. Len(arr) - 1 : arr[p + 1] = target}

Sorted(a) == \A i \in 1 .. Len(a) - 1 : a[i] <= a[i + 1]

Entries(tr) == {tr[k] : k \in 1 .. Len(tr)}

\* the points of a trace entry
PointsOf(e) == {e.points[k] : k \in 1 .. Len(e.points)}

BothDone == rpc = "done" /\ ipc = "done"

----------------------------------------------------------------------------
(* C1: on an ascending-sorted list that holds the target, neither form      *)
(* raises, and each returns an index of the list at which the list holds    *)
(* the target (so never -1, and the one index when the target occurs once). *)
FoundWhenPresent ==
    Occurs # {} =>
        /\ rpc # "raised" /\ ipc # "raised"
        /\ rpc = "done" => rresult \in Occurs
        /\ ipc = "done" => iresult \in Occurs

\* both forms have returned, after two narrowing steps, an occurrence of a
\* target that the list holds twice or more, and not the first occurrence
FoundWithDuplicates ==
    /\ BothDone
    /\ Cardinality(Occurs) >= 2
    /\ Len(rtrace) >= 3 /\ Len(itrace) >= 3
    /\ rresult \in Occurs /\ iresult \in Occurs
    /\ \E p \in Occurs : p < rresult

(* C2: on an ascending-sorted list (the empty one included) that does not   *)
(* hold the target, neither form raises and each returns -1.                *)
NotFoundWhenAbsent ==
    Occurs = {} =>
        /\ rpc # "raised" /\ ipc # "raised"
        /\ rpc = "done" => rresult = -1
        /\ ipc = "done" => iresult = -1

\* both forms have returned -1 for a target that lies in a gap between the
\* values of a list of more than 10 elements
AbsentInGap ==
    /\ BothDone
    /\ Occurs = {}
    /\ Len(arr) > 10
    /\ \E i \in 1 .. Len(arr) - 1 : arr[i] < target /\ target < arr[i + 1]
    /\ rresult = -1 /\ iresult = -1

(* C3: on an ascending-sorted list the two forms visit the same ranges and  *)
(* probe the same points in the same order (the shorter history is a prefix *)
(* of the longer one), and when both have ended they ended the same way     *)
(* with the same result.                                                    *)
FormsAgree ==
    /\ \A k \in 1 .. Min(Len(rtrace), Len(itrace)) : rtrace[k] = itrace[k]
    /\ (rpc # "call" /\ ipc # "loop") =>
            /\ rpc = ipc
            /\ rresult = iresult
            /\ rtrace = itrace

\* both forms have returned an index after three or more steps
AgreeAfterSteps ==
    /\ BothDone
    /\ Len(rtrace) >= 3
    /\ rresult = iresult /\ rresult >= 0

(* C4: on any list, neither form raises, every index probed lies in         *)
(* 0 .. len(arr) - 1, a recursive call that goes on to select a segment has *)
(* a non-empty division_points, and a returned value is -1 or an index of   *)
(* the list.                                                                *)
NoOutOfBounds ==
    /\ rpc # "raised" /\ ipc # "raised"
    /\ \A e \in Entries(rtrace) \cup Entries(itrace) :
            \A p \in PointsOf(e) : 0 <= p /\ p <= Len(arr) - 1
    /\ \A e \in Entries(rtrace) : e.kind = "narrow" => e.points # <<>>
    /\ rpc = "done" => rresult = -1 \/ rresult \in 0 .. Len(arr) - 1
    /\ ipc = "done" => iresult = -1 \/ iresult \in 0 .. Len(arr) - 1

\* both forms have returned from an unsorted list of more than 10 elements
\* after probing its last index
UnsortedSearched ==
    /\ BothDone
    /\ ~Sorted(arr)
    /\ Len(arr) > 10
    /\ \E e \in Entries(rtrace) : Len(arr) - 1 \in PointsOf(e)
    /\ \E e \in Entries(itrace) : Len(arr) - 1 \in PointsOf(e)

(* C5: for a range size s >= 1 the division count of either form lies in    *)
(* 2 .. 32: it is 2 when s <= 10 and min(floor(2 * log2(s)), 32), at least  *)
(* 6, when s > 10; the two forms compute the same count.                    *)
DivisionsInRange ==
    /\ rpc = "planned" =>
            /\ 2 <= rdivisions /\ rdivisions <= 32
            /\ rsize <= 10 => rdivisions = 2
            /\ rsize > 10 => rdivisions >= 6 /\ rdivisions = Min(IntTwoLog2(rsize), 32)
    /\ ipc = "planned" =>
            /\ 2 <= idivisions /\ idivisions <= 32
            /\ isize <= 10 => idivisions = 2
            /\ isize > 10 => idivisions >= 6 /\ idivisions = Min(IntTwoLog2(isize), 32)
    /\ (rpc = "planned" /\ ipc = "planned" /\ rsize = isize) => rdivisions = idivisions

\* both forms have planned a range so large that the cap cuts the count
CapApplied ==
    /\ rpc = "planned" /\ ipc = "planned"
    /\ IntTwoLog2(rsize) > 32
    /\ rdivisions = 32 /\ idivisions = 32

(* C6 as stated: in every step on a non-empty range the points computed are *)
(* strictly increasing and each lies strictly inside the range,             *)
(* left < point < right.                                                    *)
PointsStrictlyInside ==
    \A e \in Entries(rtrace) \cup Entries(itrace) :
        e.left <= e.right =>
            /\ \A k \in 1 .. Len(e.points) - 1 : e.points[k] < e.points[k + 1]
            /\ \A p \in PointsOf(e) : e.left < p /\ p < e.right

(* C6 as amended: in every step on a non-empty range the points computed    *)
(* are strictly increasing and each lies in the range,                      *)
(* left <= point <= right; each lies strictly inside, left < point < right, *)
(* when the range holds 3 elements or more.  In a range of 1 element the    *)
(* point is left, in a range of 2 elements it is right.                     *)
PointsInsideRange ==
    \A e \in Entries(rtrace) \cup Entries(itrace) :
        e.left <= e.right =>
            /\ \A k \in 1 .. Len(e.points) - 1 : e.points[k] < e.points[k + 1]
            /\ \A p \in PointsOf(e) : e.left <= p /\ p <= e.right
            /\ e.right - e.left + 1 >= 3 =>
                    \A p \in PointsOf(e) : e.left < p /\ p < e.right
            /\ e.right - e.left + 1 = 1 => e.points = <<e.left>>
            /\ e.right - e.left + 1 = 2 => e.points = <<e.right>>

\* each form has made a step with 5 or more points and then a step on a
\* range of 1 element, whose point is left = right
PointsOnBoundary ==
    /\ \E e \in Entries(rtrace) : Len(e.points) >= 5
    /\ \E e \in Entries(rtrace) : e.left = e.right /\ e.points = <<e.left>>
    /\ \E e \in Entries(itrace) : Len(e.points) >= 5
    /\ \E e \in Entries(itrace) : e.left = e.right /\ e.points = <<e.right>>

RecShrinks ==
    (rpc = "call" /\ rpc' = "call" /\ rtrace' # rtrace) =>
        /\ rleft <= rleft' /\ rright' <= rright
        /\ rright' - rleft' + 1 < rright - rleft + 1

IterShrinks ==
    (ipc = "loop" /\ ipc' = "loop" /\ itrace' # itrace) =>
        /\ ileft <= ileft' /\ iright' <= iright
        /\ iright' - ileft' + 1 < iright - ileft + 1

SearchTerminates ==
    /\ [][RecShrinks /\ IterShrinks]_vars
    /\ [](Len(rtrace) <= Len(arr) + 1 /\ Len(itrace) <= Len(arr) + 1)

\* both forms have returned -1 from an unsorted list after 4 or more steps
LongSearchEnded ==
    /\ BothDone
    /\ ~Sorted(arr)
    /\ Len(rtrace) >= 4 /\ Len(itrace) >= 4
    /\ rresult = -1 /\ iresult = -1

(* C9: on an ascending-sorted list, every occurrence of the target lies in  *)
(* the current range of either form, and the range of a form still          *)
(* searching holds none of the points that form has probed.                 *)
TargetStaysInRange ==
    /\ \A p \in Occurs : rleft <= p /\ p <= rright
    /\ \A p \in Occurs : ileft <= p /\ p <= iright
    /\ rpc = "call" =>
            \A e \in Entries(rtrace) : \A p \in PointsOf(e) : p < rleft \/ rright < p
    /\ ipc = "loop" =>
            \A e \in Entries(itrace) : \A p \in PointsOf(e) : p < ileft \/ iright < p

\* both forms have narrowed twice and their ranges still hold two or more
\* occurrences of the target
NarrowedOntoDuplicates ==
    /\ rpc = "call" /\ ipc = "loop"
    /\ Len(rtrace) >= 2 /\ Len(itrace) >= 2
    /\ Cardinality(Occurs) >= 2
    /\ rleft < rright /\ ileft < iright

(* C10: on any list the safety check `point >= len(arr)` of the iterative   *)
(* form never fires, the binary-search fallback is never taken, and a pass  *)
(* that goes on to select a segment holds divisions - 1 points.             *)
GuardNeverFires ==
    /\ ~iguard
    /\ ~ifallback
    /\ \A e \in Entries(itrace) :
            e.kind = "narrow" => Len(e.points) = e.divisions - 1

\* the iterative form has returned after probing the last index of a list
\* of more than 10 elements in a pass on a range of 1 element
LastIndexProbed ==
    /\ ipc = "done"
    /\ Len(arr) > 10
    /\ \E e \in Entries(itrace) :
            e.left = e.right /\ e.right = Len(arr) - 1 /\ e.kind = "narrow"

====
